---- MODULE Spec2Model ----
(***************************************************************************)
(* Model of jules-scratch/verification/verify_profile_page.py: a           *)
(* Playwright script that logs into the admin panel, opens the profile     *)
(* page through the account menu and takes a screenshot.                   *)
(*                                                                         *)
(* The process is one sequential flow, so its state is a program counter   *)
(* (pc) plus the resources it holds.  The target application is the        *)
(* environment: it is chosen in Init and never changes afterwards.  Each   *)
(* line of the script is one action; a call that needs something of the    *)
(* application either completes or raises, as the application decides.     *)
(* Calls into the automation library that do not depend on the target      *)
(* application (launch, new_page, screenshot, close) complete.             *)
(***************************************************************************)
EXTENDS Integers, Sequences, FiniteSets, TLC

\* The number of times the script is run in succession.
MaxRuns == 2

----------------------------------------------------------------------------
\* Literals of the script.

LoginUrl == <<"admin", "login">>
AdminEmail == "admin@gorectus.local"
AdminPassword == "admin123"
DashboardPattern == "dashboard"
ProfilePattern == "profile"
ScreenshotPath == "jules-scratch/verification/profile_page.png"

\* A path the script never names, to observe that nothing else is written.
OtherPath == "profile_page.png"
Paths == {ScreenshotPath, OtherPath}

\* The calls of verify_profile_page, in program order.
Steps ==
  << "goto", "fill_email", "fill_password", "click_sign_in",
     "expect_dashboard_url", "click_account", "click_profile",
     "expect_profile_url", "expect_heading", "screenshot" >>

StepSet == {Steps[i] : i \in 1..Len(Steps)}

IndexOf(s) == CHOOSE i \in 1..Len(Steps) : Steps[i] = s

\* The statement after step p: the next call of verify_profile_page, or, after
\* the last one, the return to main where browser.close() is next.
NextPc(p) ==
  IF IndexOf(p) = Len(Steps) THEN "close" ELSE Steps[IndexOf(p) + 1]

\* URLs are sequences of path segments.  re.compile(r".*/word") is searched in
\* the URL, not anchored at its end: it matches when "/word" occurs anywhere.
Matches(u, word) == \E i \in 1..Len(u) : u[i] = word

----------------------------------------------------------------------------
\* The target application (external): what it serves to the script.

DashboardUrls == { <<"admin", "dashboard">>, <<"dashboard">>, <<"admin", "home">> }
ProfileUrls ==
  { <<"admin", "profile">>, <<"admin", "dashboard", "profile">>, <<"admin", "dashboard">> }

LoginLabels == {"Email Address", "Password", "Sign In"}

Apps ==
  [ reachable      : BOOLEAN,           \* /admin/login loads
    loginLabels    : SUBSET LoginLabels, \* labelled elements of the login page
    password       : {AdminPassword, "changed"}, \* the password the app accepts
    dashboardUrl   : DashboardUrls,     \* where a successful login lands
    hasAccountMenu : BOOLEAN,           \* "account of current user" exists
    hasProfileItem : BOOLEAN,           \* menuitem "Profile" exists in the menu
    profileUrl     : ProfileUrls,       \* where the Profile item leads
    hasHeading     : BOOLEAN,           \* heading "My Profile" is visible
    profileOverflows : BOOLEAN ]        \* the profile page is taller than the viewport

Absent == [exists |-> FALSE, by |-> 0, clip |-> "none", whole |-> FALSE]
\* A screenshot left by an earlier execution (by = 0).
Stale == [exists |-> TRUE, by |-> 0, clip |-> "viewport", whole |-> TRUE]

NoOutcome == [exitStatus |-> -1, failedAt |-> "none", exc |-> "none"]

VARIABLES
  app,          \* the target application
  fs,           \* the file system: path -> file
  fsAtStart,    \* history: fs when the current run started
  run,          \* the number of the current run
  prev,         \* history: the outcome of the previous run
  pc,           \* the statement the process executes next
  playwright,   \* the sync_playwright context: "none", "running", "stopped"
  nBrowsers,    \* live browsers
  nPages,       \* live pages
  view,         \* what the page shows: "blank", "login", "landing", "profile"
  fields,       \* values typed into the login form
  menuOpen,     \* the account menu is open
  exc,          \* the exception in flight, "none" when there is none
  failedAt,     \* the statement that raised
  closeCalled,  \* browser.close() was executed
  log,          \* history: the steps completed, in order
  exitStatus    \* the process's exit status, -1 while it runs

envVars == <<app, fs, fsAtStart, run, prev>>
procVars ==
  <<pc, playwright, nBrowsers, nPages, view, fields, menuOpen, exc, failedAt,
    closeCalled, log, exitStatus>>
vars == <<envVars, procVars>>

\* The URL of the page, as the application assigns it to what is shown.
PageUrl ==
  CASE view = "blank"   -> <<>>
    [] view = "login"   -> LoginUrl
    [] view = "landing" -> app.dashboardUrl
    [] view = "profile" -> app.profileUrl

\* A fresh process: nothing acquired, nothing executed.
FreshProcess ==
  /\ pc = "sync_playwright"
  /\ playwright = "none"
  /\ nBrowsers = 0
  /\ nPages = 0
  /\ view = "blank"
  /\ fields = [email |-> "", password |-> ""]
  /\ menuOpen = FALSE
  /\ exc = "none"
  /\ failedAt = "none"
  /\ closeCalled = FALSE
  /\ log = <<>>
  /\ exitStatus = -1

Init ==
  /\ app \in Apps
  /\ fs \in [Paths -> {Absent, Stale}]
  /\ fs[OtherPath] = Absent
  /\ fsAtStart = fs
  /\ run = 1
  /\ prev = NoOutcome
  /\ FreshProcess

----------------------------------------------------------------------------
\* Control flow shared by the steps.

\* The call at pc completes: control moves to the next statement.
Advance ==
  /\ pc' = NextPc(pc)
  /\ log' = Append(log, pc)
  /\ UNCHANGED <<exc, failedAt>>

\* Mutant: the error is recorded but the script goes on with the next step.
RaiseAndContinue(kind) ==
  /\ exc' = kind
  /\ failedAt' = pc
  /\ pc' = NextPc(pc)
  /\ UNCHANGED <<envVars, playwright, nBrowsers, nPages, view, fields, menuOpen,
                 closeCalled, log, exitStatus>>

\* Mutant: the error unwinds through a finally block that closes the browser.
RaiseThroughClose(kind) ==
  /\ exc' = kind
  /\ failedAt' = pc
  /\ pc' = "close"
  /\ UNCHANGED <<envVars, playwright, nBrowsers, nPages, view, fields, menuOpen,
                 closeCalled, log, exitStatus>>

\* The call at pc raises.  Nothing in verify_profile_page or main catches it:
\* it unwinds out of both, past browser.close(), to the exit of the with block.
Raise(kind) ==
  /\ exc' = kind
  /\ failedAt' = pc
  /\ pc' = "exit_with"
  /\ UNCHANGED <<envVars, playwright, nBrowsers, nPages, view, fields, menuOpen,
                 closeCalled, log, exitStatus>>

----------------------------------------------------------------------------
\* main, up to the call of verify_profile_page.

SyncPlaywright ==
  /\ pc = "sync_playwright"
  /\ playwright' = "running"
  /\ pc' = "launch"
  /\ UNCHANGED <<envVars, nBrowsers, nPages, view, fields, menuOpen, exc, failedAt,
                 closeCalled, log, exitStatus>>

Launch ==
  /\ pc = "launch"
  /\ nBrowsers' = nBrowsers + 1
  /\ pc' = "new_page"
  /\ UNCHANGED <<envVars, playwright, nPages, view, fields, menuOpen, exc, failedAt,
                 closeCalled, log, exitStatus>>

\* Mutant: a page is opened in a second browser context as well.
NewPageTwice ==
  /\ pc = "new_page"
  /\ nPages' = nPages + 2
  /\ view' = "blank"
  /\ pc' = Steps[1]
  /\ UNCHANGED <<envVars, playwright, nBrowsers, fields, menuOpen, exc, failedAt,
                 closeCalled, log, exitStatus>>

NewPage ==
  /\ pc = "new_page"
  /\ nPages' = nPages + 1
  /\ view' = "blank"
  /\ pc' = Steps[1]
  /\ UNCHANGED <<envVars, playwright, nBrowsers, fields, menuOpen, exc, failedAt,
                 closeCalled, log, exitStatus>>

----------------------------------------------------------------------------
\* verify_profile_page.

\* The elements a locator can resolve on what the page shows.
Elements ==
  CASE view = "blank"   -> {}
    [] view = "login"   -> app.loginLabels
    [] view = "landing" ->
         (IF app.hasAccountMenu THEN {"account of current user"} ELSE {})
           \cup (IF menuOpen /\ app.hasProfileItem THEN {"Profile"} ELSE {})
    [] view = "profile" -> IF app.hasHeading THEN {"My Profile"} ELSE {}

\* page.goto("http://localhost:3000/admin/login")
Goto ==
  /\ pc = "goto"
  /\ \/ /\ app.reachable
        /\ view' = "login"
        /\ menuOpen' = FALSE
        /\ Advance
        /\ UNCHANGED <<envVars, playwright, nBrowsers, nPages, fields, closeCalled,
                       exitStatus>>
     \/ /\ ~app.reachable
        /\ Raise("NavigationError")

\* page.get_by_label("Email Address").fill("admin@gorectus.local")
FillEmail ==
  /\ pc = "fill_email"
  /\ \/ /\ "Email Address" \in Elements
        /\ fields' = [fields EXCEPT !.email = AdminEmail]
        /\ Advance
        /\ UNCHANGED <<envVars, playwright, nBrowsers, nPages, view, menuOpen,
                       closeCalled, exitStatus>>
     \/ /\ "Email Address" \notin Elements
        /\ Raise("LocatorError")

\* Mutant: another password than the configured one is typed.
FillPasswordTypo ==
  /\ pc = "fill_password"
  /\ \/ /\ "Password" \in Elements
        /\ fields' = [fields EXCEPT !.password = "admin"]
        /\ Advance
        /\ UNCHANGED <<envVars, playwright, nBrowsers, nPages, view, menuOpen,
                       closeCalled, exitStatus>>
     \/ /\ "Password" \notin Elements
        /\ Raise("LocatorError")

\* page.get_by_label("Password").fill("admin123")
FillPassword ==
  /\ pc = "fill_password"
  /\ \/ /\ "Password" \in Elements
        /\ fields' = [fields EXCEPT !.password = AdminPassword]
        /\ Advance
        /\ UNCHANGED <<envVars, playwright, nBrowsers, nPages, view, menuOpen,
                       closeCalled, exitStatus>>
     \/ /\ "Password" \notin Elements
        /\ Raise("LocatorError")

\* What the application shows after the login form is submitted with f.
AfterSignIn(f) ==
  IF f.email = AdminEmail /\ f.password = app.password THEN "landing" ELSE "login"

\* page.get_by_role("button", name="Sign In").click()
ClickSignIn ==
  /\ pc = "click_sign_in"
  /\ \/ /\ "Sign In" \in Elements
        /\ view' = AfterSignIn(fields)
        /\ Advance
        /\ UNCHANGED <<envVars, playwright, nBrowsers, nPages, fields, menuOpen,
                       closeCalled, exitStatus>>
     \/ /\ "Sign In" \notin Elements
        /\ Raise("LocatorError")

\* Mutant: the wait for the dashboard is dropped.
ExpectDashboardUrlSkipped ==
  /\ pc = "expect_dashboard_url"
  /\ Advance
  /\ UNCHANGED <<envVars, playwright, nBrowsers, nPages, view, fields, menuOpen,
                 closeCalled, exitStatus>>

\* expect(page).to_have_url(re.compile(r".*/dashboard"))
ExpectDashboardUrl ==
  /\ pc = "expect_dashboard_url"
  /\ \/ /\ Matches(PageUrl, DashboardPattern)
        /\ Advance
        /\ UNCHANGED <<envVars, playwright, nBrowsers, nPages, view, fields, menuOpen,
                       closeCalled, exitStatus>>
     \/ /\ ~Matches(PageUrl, DashboardPattern)
        /\ Raise("AssertionTimeout")

\* page.get_by_label("account of current user").click()
ClickAccount ==
  /\ pc = "click_account"
  /\ \/ /\ "account of current user" \in Elements
        /\ menuOpen' = TRUE
        /\ Advance
        /\ UNCHANGED <<envVars, playwright, nBrowsers, nPages, view, fields,
                       closeCalled, exitStatus>>
     \/ /\ "account of current user" \notin Elements
        /\ Raise("LocatorError")

\* page.get_by_role("menuitem", name="Profile").click()
ClickProfile ==
  /\ pc = "click_profile"
  /\ \/ /\ "Profile" \in Elements
        /\ view' = "profile"
        /\ menuOpen' = FALSE
        /\ Advance
        /\ UNCHANGED <<envVars, playwright, nBrowsers, nPages, fields, closeCalled,
                       exitStatus>>
     \/ /\ "Profile" \notin Elements
        /\ Raise("LocatorError")

\* Mutant: the dashboard pattern is pasted where the profile pattern belongs.
ExpectProfileUrlPasted ==
  /\ pc = "expect_profile_url"
  /\ \/ /\ Matches(PageUrl, DashboardPattern)
        /\ Advance
        /\ UNCHANGED <<envVars, playwright, nBrowsers, nPages, view, fields, menuOpen,
                       closeCalled, exitStatus>>
     \/ /\ ~Matches(PageUrl, DashboardPattern)
        /\ Raise("AssertionTimeout")

\* expect(page).to_have_url(re.compile(r".*/profile"))
ExpectProfileUrl ==
  /\ pc = "expect_profile_url"
  /\ \/ /\ Matches(PageUrl, ProfilePattern)
        /\ Advance
        /\ UNCHANGED <<envVars, playwright, nBrowsers, nPages, view, fields, menuOpen,
                       closeCalled, exitStatus>>
     \/ /\ ~Matches(PageUrl, ProfilePattern)
        /\ Raise("AssertionTimeout")

\* expect(page.get_by_role("heading", name="My Profile")).to_be_visible()
ExpectHeading ==
  /\ pc = "expect_heading"
  /\ \/ /\ "My Profile" \in Elements
        /\ Advance
        /\ UNCHANGED <<envVars, playwright, nBrowsers, nPages, view, fields, menuOpen,
                       closeCalled, exitStatus>>
     \/ /\ "My Profile" \notin Elements
        /\ Raise("AssertionTimeout")

\* The page shown extends below the viewport.
Overflows == view = "profile" /\ app.profileOverflows

\* The image page.screenshot produces.  full_page is the option of that name:
\* without it the image is clipped to the viewport.
Capture(full_page) ==
  [ exists |-> TRUE,
    by     |-> run,
    clip   |-> IF full_page THEN "fullPage" ELSE "viewport",
    whole  |-> full_page \/ ~Overflows ]

\* Mutant: the screenshot is taken with full_page=True.
ScreenshotFullPage ==
  /\ pc = "screenshot"
  /\ fs' = [fs EXCEPT ![ScreenshotPath] = Capture(TRUE)]
  /\ Advance
  /\ UNCHANGED <<app, fsAtStart, run, prev, playwright, nBrowsers, nPages, view,
                 fields, menuOpen, closeCalled, exitStatus>>

\* Mutant: the file is created exclusively, so an existing file is an error.
ScreenshotNoOverwrite ==
  /\ pc = "screenshot"
  /\ \/ /\ ~fs[ScreenshotPath].exists
        /\ fs' = [fs EXCEPT ![ScreenshotPath] = Capture(FALSE)]
        /\ Advance
        /\ UNCHANGED <<app, fsAtStart, run, prev, playwright, nBrowsers, nPages, view,
                       fields, menuOpen, closeCalled, exitStatus>>
     \/ /\ fs[ScreenshotPath].exists
        /\ Raise("FileExistsError")

\* page.screenshot(path="jules-scratch/verification/profile_page.png"): no
\* full_page argument is passed, and the file at the path is overwritten.
Screenshot ==
  /\ pc = "screenshot"
  /\ fs' = [fs EXCEPT ![ScreenshotPath] = Capture(FALSE)]
  /\ Advance
  /\ UNCHANGED <<app, fsAtStart, run, prev, playwright, nBrowsers, nPages, view,
                 fields, menuOpen, closeCalled, exitStatus>>

----------------------------------------------------------------------------
\* main, after verify_profile_page.

\* browser.close(): reached only when verify_profile_page returned.  Closing
\* the browser closes its pages.
Close ==
  /\ pc = "close"
  /\ nBrowsers' = nBrowsers - 1
  /\ nPages' = 0
  /\ closeCalled' = TRUE
  /\ pc' = "exit_with"
  /\ UNCHANGED <<envVars, playwright, view, fields, menuOpen, exc, failedAt, log,
                 exitStatus>>

\* Mutant: the playwright driver is left running, with whatever it still holds.
ExitWithLeak ==
  /\ pc = "exit_with"
  /\ pc' = "done"
  /\ exitStatus' = IF exc = "none" THEN 0 ELSE 1
  /\ UNCHANGED <<envVars, playwright, nBrowsers, nPages, view, fields, menuOpen, exc,
                 failedAt, closeCalled, log>>

\* Mutant: the context manager's exit suppresses the exception in flight.
ExitWithSuppress ==
  /\ pc = "exit_with"
  /\ playwright' = "stopped"
  /\ nBrowsers' = 0
  /\ nPages' = 0
  /\ pc' = "done"
  /\ exitStatus' = 0
  /\ UNCHANGED <<envVars, view, fields, menuOpen, exc, failedAt, closeCalled, log>>

\* The exit of "with sync_playwright() as p", on the normal and on the
\* exceptional path: playwright is stopped, which closes every browser (and
\* page) still running.  The exception in flight, if any, is not suppressed:
\* it leaves main and the interpreter exits with a non-zero status.
ExitWith ==
  /\ pc = "exit_with"
  /\ playwright' = "stopped"
  /\ nBrowsers' = 0
  /\ nPages' = 0
  /\ pc' = "done"
  /\ exitStatus' = IF exc = "none" THEN 0 ELSE 1
  /\ UNCHANGED <<envVars, view, fields, menuOpen, exc, failedAt, closeCalled, log>>

\* The outcome of the run that has ended.
Outcome == [exitStatus |-> exitStatus, failedAt |-> failedAt, exc |-> exc]

\* The script is executed again (if __name__ == "__main__": main()) in a new
\* process against the same application; the file system is what remains.
Rerun ==
  /\ pc = "done"
  /\ run < MaxRuns
  /\ run' = run + 1
  /\ prev' = Outcome
  /\ fsAtStart' = fs
  /\ pc' = "sync_playwright"
  /\ playwright' = "none"
  /\ nBrowsers' = 0
  /\ nPages' = 0
  /\ view' = "blank"
  /\ fields' = [email |-> "", password |-> ""]
  /\ menuOpen' = FALSE
  /\ exc' = "none"
  /\ failedAt' = "none"
  /\ closeCalled' = FALSE
  /\ log' = <<>>
  /\ exitStatus' = -1
  /\ UNCHANGED <<app, fs>>

Body ==
  \/ Goto
  \/ FillEmail
  \/ FillPassword
  \/ ClickSignIn
  \/ ExpectDashboardUrl
  \/ ClickAccount
  \/ ClickProfile
  \/ ExpectProfileUrl
  \/ ExpectHeading
  \/ Screenshot

Main ==
  \/ SyncPlaywright
  \/ Launch
  \/ NewPage
  \/ Body
  \/ Close
  \/ ExitWith

Next == Main \/ Rerun

Spec == Init /\ [][Next]_vars

\* Every call of the script is a blocking call that completes, times out or
\* raises, so a process that has a statement to execute executes it.
LiveSpec == Spec /\ WF_vars(Main)

----------------------------------------------------------------------------
\* Vocabulary of the properties.

\* Step s was completed in this run.
Done(s) == \E i \in 1..Len(log) : log[i] = s

\* The position of a completed step in the log.
Pos(s) == CHOOSE i \in 1..Len(log) : log[i] = s

\* The scenario state of the run, read off the steps completed.
ScenarioState ==
  IF exc # "none" THEN "Failed"
  ELSE IF Len(log) = 0 THEN "NotStarted"
  ELSE IF Len(log) < IndexOf("click_sign_in") THEN "OnLogin"
  ELSE IF Len(log) < IndexOf("expect_dashboard_url") THEN "Authenticating"
  ELSE IF Len(log) < IndexOf("click_account") THEN "OnDashboard"
  ELSE IF Len(log) < IndexOf("click_profile") THEN "MenuOpen"
  ELSE IF Len(log) < IndexOf("screenshot") THEN "OnProfile"
  ELSE "Captured"

LinearPath ==
  { <<"NotStarted", "OnLogin">>, <<"OnLogin", "Authenticating">>,
    <<"Authenticating", "OnDashboard">>, <<"OnDashboard", "MenuOpen">>,
    <<"MenuOpen", "OnProfile">>, <<"OnProfile", "Captured">> }

FailurePath ==
  { <<s, "Failed">> :
      s \in {"NotStarted", "OnLogin", "Authenticating", "OnDashboard", "MenuOpen",
             "OnProfile"} }

\* The screenshot file was written by the current run.
WrittenThisRun == fs[ScreenshotPath].exists /\ fs[ScreenshotPath].by = run

\* The application of section 6 of the specification: every locator resolves,
\* the credentials of the script are accepted, every awaited URL is reached.
WellConfigured ==
  /\ app.reachable
  /\ app.loginLabels = LoginLabels
  /\ app.password = AdminPassword
  /\ Matches(app.dashboardUrl, DashboardPattern)
  /\ app.hasAccountMenu
  /\ app.hasProfileItem
  /\ Matches(app.profileUrl, ProfilePattern)
  /\ app.hasHeading

\* The application rejects the credentials the script types.
RejectsCredentials == app.password # AdminPassword

\* The steps after the wait for the dashboard.
LaterSteps ==
  {"click_account", "click_profile", "expect_profile_url", "expect_heading",
   "screenshot"}

----------------------------------------------------------------------------
\* C1: when the process has exited, on the normal path and on every path
\* where a step of verify_profile_page raised, no browser (and no page) is
\* live and the playwright context is stopped.
C1_BrowserReleased ==
  pc = "done" => nBrowsers = 0 /\ nPages = 0 /\ playwright = "stopped"

C1_Witness ==
  pc = "done" /\ failedAt = "expect_heading" /\ exc = "AssertionTimeout" /\ nBrowsers = 0

\* C2: the steps run in program order, each at most once: the log is always
\* a prefix of Steps, a step is at pc only when exactly the earlier ones are
\* completed and nothing has failed; once a step has failed no step is
\* executed any more; the scenario state moves only along the linear path
\* NotStarted, OnLogin, ..., Captured, or to Failed.
C2_Prefix ==
  /\ Len(log) <= Len(Steps)
  /\ \A i \in 1..Len(log) : log[i] = Steps[i]
  /\ pc \in StepSet => exc = "none" /\ IndexOf(pc) = Len(log) + 1
  /\ exc # "none" => pc \notin StepSet /\ failedAt \in StepSet
  /\ ScenarioState = "Captured" <=> (log = Steps /\ exc = "none")

C2_Move ==
  run' = run =>
    /\ exc # "none" => exc' = exc /\ log' = log /\ failedAt' = failedAt
    /\ log' # log => Len(log) < Len(Steps) /\ log' = Append(log, Steps[Len(log) + 1])
    /\ ScenarioState' # ScenarioState =>
         <<ScenarioState, ScenarioState'>> \in LinearPath \cup FailurePath

C2_Sequential == []C2_Prefix /\ [][C2_Move]_vars

C2_Witness == pc = "done" /\ ScenarioState = "Captured" /\ log = Steps

\* C3: the screenshot file is written by a run only after that run saw the
\* dashboard URL, then the profile URL, then the heading, and the application
\* indeed served them; in a run where a step has failed the file system is as
\* it was when the run started.
C3_ScreenshotOnlyAfterChecks ==
  /\ WrittenThisRun =>
       /\ Done("expect_dashboard_url") /\ Done("expect_profile_url")
       /\ Done("expect_heading") /\ Done("screenshot")
       /\ Pos("expect_dashboard_url") < Pos("expect_profile_url")
       /\ Pos("expect_profile_url") < Pos("expect_heading")
       /\ Pos("expect_heading") < Pos("screenshot")
       /\ Matches(app.dashboardUrl, DashboardPattern)
       /\ Matches(app.profileUrl, ProfilePattern)
       /\ app.hasHeading
  /\ exc # "none" => ~Done("screenshot") /\ fs = fsAtStart

C3_Witness ==
  /\ pc = "done"
  /\ ~app.hasProfileItem
  /\ failedAt = "click_profile"
  /\ exc = "LocatorError"
  /\ fs[ScreenshotPath] = Stale

\* C4: when the application rejects the credentials, no step after the wait
\* for the dashboard is ever at pc, completed or failed, and a run that
\* submitted the login form ends with the assertion timeout of that wait.
C4_RejectedLogin ==
  RejectsCredentials =>
    /\ pc \notin LaterSteps
    /\ failedAt \notin LaterSteps
    /\ \A s \in LaterSteps : ~Done(s)
    /\ ~WrittenThisRun
    /\ (pc = "done" /\ Done("click_sign_in")) =>
         /\ exc = "AssertionTimeout"
         /\ failedAt = "expect_dashboard_url"
         /\ exitStatus # 0

C4_Witness ==
  /\ RejectsCredentials
  /\ pc = "done"
  /\ Done("click_sign_in")
  /\ failedAt = "expect_dashboard_url"

\* C5: the exit status is zero exactly when every step and browser.close()
\* completed; an exception, once raised, goes straight to the exit of the
\* with block, is never cleared, and makes the exit status non-zero.
C5_Status ==
  /\ pc # "done" => exitStatus = -1
  /\ pc = "done" =>
       /\ exitStatus \in {0, 1}
       /\ exitStatus = 0 <=> (log = Steps /\ closeCalled)
       /\ exitStatus # 0 <=> exc # "none"

C5_Propagates ==
  run' = run =>
    /\ (exc = "none" /\ exc' # "none") => pc' = "exit_with"
    /\ exc # "none" => exc' = exc /\ log' = log /\ closeCalled' = closeCalled

C5_ExitStatus == []C5_Status /\ [][C5_Propagates]_vars

C5_Witness ==
  pc = "done" /\ exitStatus = 1 /\ exc = "NavigationError" /\ failedAt = "goto"

\* C6: against a well-configured application no step fails and the run ends
\* Captured, with the screenshot written by it and exit status zero; and every
\* run, on any application, ends, having reached Captured or Failed.
C6_WellConfiguredEnds ==
  /\ WellConfigured => exc = "none"
  /\ (pc = "done" /\ WellConfigured) =>
       /\ exitStatus = 0
       /\ ScenarioState = "Captured"
       /\ WrittenThisRun

C6_Terminates ==
  /\ []C6_WellConfiguredEnds
  /\ \A r \in 1..MaxRuns :
       (run = r /\ pc = "sync_playwright") ~> (run = r /\ pc = "done")
  /\ \A r \in 1..MaxRuns :
       (run = r /\ pc = "sync_playwright")
         ~> (run = r /\ ScenarioState \in {"Captured", "Failed"})

C6_Witness ==
  pc = "done" /\ WellConfigured /\ exitStatus = 0 /\ WrittenThisRun

C8_SameOutcome ==
  /\ (run > 1 /\ pc = "done") => Outcome = prev
  /\ pc = "sync_playwright" => FreshProcess
  /\ \A p \in Paths \ {ScreenshotPath} : fs[p] = fsAtStart[p]
  /\ fs[ScreenshotPath] # fsAtStart[ScreenshotPath] => WrittenThisRun

C8_Witness ==
  /\ run = 2
  /\ pc = "done"
  /\ prev.exitStatus = 0
  /\ exitStatus = 0
  /\ fsAtStart[ScreenshotPath].by = 1
  /\ fs[ScreenshotPath].by = 2

\* C9 as stated: the screenshot shows the whole scrollable page and is stored
\* at the fixed path.
C9_FullPage ==
  Done("screenshot") =>
    /\ fs[ScreenshotPath].exists
    /\ fs[ScreenshotPath].whole

\* C9 as amended: the screenshot is clipped to the viewport (it shows the whole
\* page only when the page does not extend below the viewport) and is stored
\* at the fixed path, and at no other.
C9_Viewport ==
  Done("screenshot") =>
    /\ fs[ScreenshotPath] =
         [exists |-> TRUE, by |-> run, clip |-> "viewport",
          whole |-> ~app.profileOverflows]
    /\ fs[OtherPath] = fsAtStart[OtherPath]

C9_Witness ==
  /\ Done("screenshot")
  /\ app.profileOverflows
  /\ fs[ScreenshotPath].clip = "viewport"
  /\ ~fs[ScreenshotPath].whole

\* C10: browser.close() is executed exactly in the runs where
\* verify_profile_page returned normally; when a step raised, the exception
\* reaches the exit of the with block with the browser still open and close
\* not called; the exit of the with block runs on every path into "done".
C10_CloseOnlyOnSuccess ==
  /\ closeCalled => exc = "none" /\ log = Steps
  /\ (pc = "exit_with" /\ exc # "none") => ~closeCalled /\ nBrowsers = 1
  /\ (pc = "exit_with" /\ exc = "none") => closeCalled /\ nBrowsers = 0
  /\ pc = "done" => (closeCalled <=> exc = "none") /\ playwright = "stopped"
  /\ playwright = "none" <=> pc = "sync_playwright"

C10_Witness ==
  /\ pc = "done"
  /\ exc = "LocatorError"
  /\ failedAt = "click_account"
  /\ ~closeCalled
  /\ playwright = "stopped"

====
